---- MODULE Spec2Model ----
(***************************************************************************)
(* Model of website/generate_site.py: the site builder that mirrors the    *)
(* docs tree, renders README.md to HTML and fills index.html.template.     *)
(*                                                                         *)
(* A text is a sequence of strings.  A one-character string is that        *)
(* character; a longer string is a lexeme: a fixed run of characters that  *)
(* the texts considered here never build from smaller elements.            *)
(***************************************************************************)
EXTENDS Integers, Sequences, FiniteSets, TLC

VARIABLES
    docsSource,   \* DOCS_SOURCE directory
    docsTarget,   \* DOCS_TARGET directory
    readme,       \* README_MD file
    template,     \* TEMPLATE_PATH file
    outputHtml,   \* OUTPUT_HTML file
    stdout,       \* lines printed so far
    pc,           \* position of main()
    error,        \* exception that ended the current run, or "none"
    io,           \* filesystem and console operations of the current run, in order
    tmpl,         \* build_page: text held by the Template object
    struck,       \* render_readme: text after STRIKE_PATTERN.sub
    rendered,     \* render_readme: markdown.markdown's result
    afterLogo,    \* render_readme: html after LOGO_PATTERN.sub
    html,         \* render_readme: returned html
    page,         \* build_page: returned page text
    runs,         \* invocations of main() started so far
    hist          \* history: files before the first run and after each finished run

vars == <<docsSource, docsTarget, readme, template, outputHtml, stdout, pc, error,
          io, tmpl, struck, rendered, afterLogo, html, page, runs, hist>>

-----------------------------------------------------------------------------
(* Bounds of the input families *)

MaxChunks == 5
MaxBlocks == 2
MaxTemplateChunks == 4
MaxRuns == 2

-----------------------------------------------------------------------------
(* Texts *)

NL == "\n"
SP == " "
TILDE == "~"
DOLLAR == "$"

RECURSIVE Concat(_)
Concat(ss) == IF ss = <<>> THEN <<>> ELSE Head(ss) \o Concat(Tail(ss))

\* sequences of at most n elements of S
SeqsUpTo(S, n) == UNION {[1..k -> S] : k \in 0..n}

Drop(t, n) == SubSeq(t, n + 1, Len(t))

-----------------------------------------------------------------------------
(* STRIKE_PATTERN = re.compile(r'~~(.*?)~~', re.DOTALL) and its substitution *)

DEL_OPEN == "<del>"
DEL_CLOSE == "</del>"

IsTildes(t, i) == i + 1 <= Len(t) /\ t[i] = TILDE /\ t[i + 1] = TILDE

\* '.' without re.DOTALL stops at a newline
DotNoDotall(c) == c # NL

\* '.' under re.DOTALL matches every character
Dot(c) == TRUE

\* (.*?)~~ from position j: the lazy quantifier tries the closing ~~ first and
\* takes one more character only when that fails; 0 when no match exists
RECURSIVE LazyClose(_, _)
LazyClose(t, j) ==
    IF j > Len(t) THEN 0
    ELSE IF IsTildes(t, j) THEN j
    ELSE IF Dot(t[j]) THEN LazyClose(t, j + 1)
    ELSE 0

\* (.*)~~ from position j: a greedy quantifier takes the last closing ~~
RECURSIVE GreedyClose(_, _)
GreedyClose(t, j) ==
    IF j > Len(t) THEN 0
    ELSE LET later == IF Dot(t[j]) THEN GreedyClose(t, j + 1) ELSE 0
         IN IF later # 0 THEN later
            ELSE IF IsTildes(t, j) THEN j
            ELSE 0

\* position of the closing ~~ of a match whose inner text starts at j
StrikeClose(t, j) == LazyClose(t, j)

\* re.sub scans left to right, replaces each leftmost match and resumes after it
RECURSIVE StrikeFrom(_, _)
StrikeFrom(t, i) ==
    IF i > Len(t) THEN <<>>
    ELSE IF IsTildes(t, i) /\ StrikeClose(t, i + 2) # 0
    THEN LET j == StrikeClose(t, i + 2)
         IN <<DEL_OPEN>> \o SubSeq(t, i + 2, j - 1) \o <<DEL_CLOSE>>
                \o StrikeFrom(t, j + 2)
    ELSE <<t[i]>> \o StrikeFrom(t, i + 1)

StrikeSub(t) == StrikeFrom(t, 1)

-----------------------------------------------------------------------------
(* markdown.markdown(text, extensions=MD_EXTENSIONS), on the README texts   *)
(* considered: blocks separated by blank lines, each either raw block-level *)
(* HTML (kept verbatim) or a paragraph of plain text and inline HTML.       *)

P_OPEN == "<p>"
P_END == "</p>"
P_CENTER == "<p align=\"center\">"
P_CENTER_UP == "<P ALIGN=\"CENTER\">"
P_CENTER_SQ == "<p align='center'>"

BlockTags == {P_CENTER, P_CENTER_UP, P_CENTER_SQ}

RECURSIVE StripLeft(_)
StripLeft(t) == IF t # <<>> /\ Head(t) = NL THEN StripLeft(Tail(t)) ELSE t

RECURSIVE StripRight(_)
StripRight(t) ==
    IF t # <<>> /\ t[Len(t)] = NL THEN StripRight(SubSeq(t, 1, Len(t) - 1)) ELSE t

\* index of the first blank line (two newlines in a row) of t, 0 if none
RECURSIVE BlankAt(_, _)
BlankAt(t, i) ==
    IF i + 1 > Len(t) THEN 0
    ELSE IF t[i] = NL /\ t[i + 1] = NL THEN i
    ELSE BlankAt(t, i + 1)

\* the blocks of a text without leading newlines
RECURSIVE Blocks(_)
Blocks(t) ==
    IF t = <<>> THEN <<>>
    ELSE LET b == BlankAt(t, 1)
         IN IF b = 0 THEN <<t>>
            ELSE <<SubSeq(t, 1, b - 1)>> \o Blocks(StripLeft(Drop(t, b)))

RenderBlock(b) ==
    IF Head(b) \in BlockTags THEN b ELSE <<P_OPEN>> \o b \o <<P_END>>

RECURSIVE JoinBlocks(_)
JoinBlocks(bs) ==
    IF bs = <<>> THEN <<>>
    ELSE IF Len(bs) = 1 THEN RenderBlock(bs[1])
    ELSE RenderBlock(bs[1]) \o <<NL>> \o JoinBlocks(Tail(bs))

Markdown(t) == JoinBlocks(Blocks(StripRight(StripLeft(t))))

-----------------------------------------------------------------------------
(* LOGO_PATTERN, TAGLINE_PATTERN (re.IGNORECASE) and their substitutions *)

IMG_HEAD == "<img src=\"docs/images/logo/ascii-art-boon.png\" alt=\"boon logo\""
SLASH == "/"
GT == ">"
TIMELESS == "Timeless"
TIMELESS_UP == "TIMELESS"
AMP == "&"
AMP_TAIL == "amp;"
PLAYFUL == "Playful Language"
P_LOGO == "<p class=\"readme__logo\">"
P_TAGLINE == "<p class=\"readme__tagline\">"

LOGO_REPL == <<P_LOGO, IMG_HEAD, SP, SLASH, GT, P_END>>
TAGLINE_REPL == <<P_TAGLINE, TIMELESS, SP, AMP, AMP_TAIL, SP, PLAYFUL, P_END>>

LOGO_COUNT == 1
TAGLINE_COUNT == 1

\* \s
IsSpace(c) == c \in {SP, NL}

\* case folding of re.IGNORECASE on the lexemes that occur
Lower(c) ==
    CASE c = P_CENTER_UP -> P_CENTER
      [] c = TIMELESS_UP -> TIMELESS
      [] OTHER -> c

\* a literal of a case-insensitive pattern at position i
Lit(h, i, c) == i <= Len(h) /\ Lower(h[i]) = Lower(c)

\* the opening literal <p align="center"> if it also accepted single quotes
OpensCenterAnyQuote(h, i) == Lit(h, i, P_CENTER) \/ Lit(h, i, P_CENTER_SQ)

\* the opening literal <p align="center"> of both patterns
OpensCenter(h, i) == Lit(h, i, P_CENTER)

\* \s* is greedy: the first position from i that holds no whitespace
RECURSIVE SkipSpace(_, _)
SkipSpace(h, i) == IF i <= Len(h) /\ IsSpace(h[i]) THEN SkipSpace(h, i + 1) ELSE i

\* an optional literal: taken when present
Opt(h, i, c) == IF Lit(h, i, c) THEN i + 1 ELSE i

\* LOGO_PATTERN at position i: the position after the match, 0 if it fails
LogoEnd(h, i) ==
    IF ~OpensCenter(h, i) THEN 0
    ELSE LET a == SkipSpace(h, i + 1)
         IN IF ~Lit(h, a, IMG_HEAD) THEN 0
            ELSE LET b == Opt(h, Opt(h, a + 1, SP), SLASH)
                 IN IF ~Lit(h, b, GT) THEN 0
                    ELSE LET c == SkipSpace(h, b + 1)
                         IN IF Lit(h, c, P_END) THEN c + 1 ELSE 0

\* TAGLINE_PATTERN at position i: the position after the match, 0 if it fails
TaglineEnd(h, i) ==
    IF ~OpensCenter(h, i) THEN 0
    ELSE LET a == SkipSpace(h, i + 1)
         IN IF ~Lit(h, a, TIMELESS) THEN 0
            ELSE LET b == SkipSpace(h, a + 1)
                 IN IF ~Lit(h, b, AMP) THEN 0
                    ELSE LET c == SkipSpace(h, Opt(h, b + 1, AMP_TAIL))
                         IN IF ~Lit(h, c, PLAYFUL) THEN 0
                            ELSE LET d == SkipSpace(h, c + 1)
                                 IN IF Lit(h, d, P_END) THEN d + 1 ELSE 0

MatchEnd(pat, h, i) == IF pat = "logo" THEN LogoEnd(h, i) ELSE TaglineEnd(h, i)

\* pattern.sub(repl, h, count) from position i with n replacements made so far;
\* count = 0 replaces every match
RECURSIVE ReSubFrom(_, _, _, _, _, _)
ReSubFrom(pat, repl, h, count, i, n) ==
    IF i > Len(h) THEN <<>>
    ELSE IF (count = 0 \/ n < count) /\ MatchEnd(pat, h, i) # 0
    THEN repl \o ReSubFrom(pat, repl, h, count, MatchEnd(pat, h, i), n + 1)
    ELSE <<h[i]>> \o ReSubFrom(pat, repl, h, count, i + 1, n)

ReSub(pat, repl, h, count) == ReSubFrom(pat, repl, h, count, 1, 0)

\* the logo substitution without its count limit
LogoSubAll(h) == ReSub("logo", LOGO_REPL, h, 0)

LogoSub(h) == ReSub("logo", LOGO_REPL, h, LOGO_COUNT)

TaglineSub(h) == ReSub("tagline", TAGLINE_REPL, h, TAGLINE_COUNT)

-----------------------------------------------------------------------------
(* string.Template(text).substitute(readme=fragment)                        *)
(* pattern: \$(?: \$ | id | {id} | <invalid> ), id = [_a-z][_a-z0-9]*,      *)
(* flags re.IGNORECASE                                                      *)

LBRACE == "{"
RBRACE == "}"
README_ID == <<"r", "e", "a", "d", "m", "e">>

Letters ==
    {"a", "b", "c", "d", "e", "f", "g", "h", "i", "j", "k", "l", "m", "n", "o",
     "p", "q", "r", "s", "t", "u", "v", "w", "x", "y", "z",
     "A", "B", "C", "D", "E", "F", "G", "H", "I", "J", "K", "L", "M", "N", "O",
     "P", "Q", "R", "S", "T", "U", "V", "W", "X", "Y", "Z"}
Digits == {"0", "1", "2", "3", "4", "5", "6", "7", "8", "9"}
IdStart == Letters \cup {"_"}
IdChar == IdStart \cup Digits

\* the position after the longest identifier that starts at i
RECURSIVE IdentEnd(_, _)
IdentEnd(t, i) == IF i <= Len(t) /\ t[i] \in IdChar THEN IdentEnd(t, i + 1) ELSE i

\* the escape $$ if convert returned the matched text instead of the delimiter
EscapedKept == <<DOLLAR, DOLLAR>>

\* convert: the escape $$ yields the delimiter
Escaped == <<DOLLAR>>

Done(s) == [ok |-> TRUE, text |-> s, err |-> "none"]
Raise(e) == [ok |-> FALSE, text |-> <<>>, err |-> e]
Then(s, r) == IF r.ok THEN Done(s \o r.text) ELSE r

\* the value of a placeholder name in the mapping {readme: frag}; an unknown
\* name raises KeyError, or stays in the text under safe_substitute
Lookup(name, orig, frag, safe) ==
    IF name = README_ID THEN Done(frag)
    ELSE IF safe THEN Done(orig)
    ELSE Raise("KeyError")

\* pattern.sub(convert, text) from position i
RECURSIVE Convert(_, _, _, _)
Convert(t, i, frag, safe) ==
    IF i > Len(t) THEN Done(<<>>)
    ELSE IF t[i] # DOLLAR THEN Then(<<t[i]>>, Convert(t, i + 1, frag, safe))
    ELSE IF i + 1 <= Len(t) /\ t[i + 1] = DOLLAR
    THEN Then(Escaped, Convert(t, i + 2, frag, safe))
    ELSE IF i + 1 <= Len(t) /\ t[i + 1] \in IdStart
    THEN LET e == IdentEnd(t, i + 1)
             r == Lookup(SubSeq(t, i + 1, e - 1), SubSeq(t, i, e - 1), frag, safe)
         IN IF r.ok THEN Then(r.text, Convert(t, e, frag, safe)) ELSE r
    ELSE IF /\ i + 2 <= Len(t)
            /\ t[i + 1] = LBRACE
            /\ t[i + 2] \in IdStart
            /\ IdentEnd(t, i + 2) <= Len(t)
            /\ t[IdentEnd(t, i + 2)] = RBRACE
    THEN LET e == IdentEnd(t, i + 2)
             r == Lookup(SubSeq(t, i + 2, e - 1), SubSeq(t, i, e), frag, safe)
         IN IF r.ok THEN Then(r.text, Convert(t, e + 1, frag, safe)) ELSE r
    ELSE IF safe THEN Then(<<DOLLAR>>, Convert(t, i + 1, frag, safe))
    ELSE Raise("ValueError")

\* Template.safe_substitute: never raises
SafeSubstitute(t, frag) == Convert(t, 1, frag, TRUE)

\* Template.substitute
Substitute(t, frag) == Convert(t, 1, frag, FALSE)

-----------------------------------------------------------------------------
(* Files and directory trees *)

NoFile == [exists |-> FALSE, text |-> <<>>]
File(s) == [exists |-> TRUE, text |-> s]

\* a read that takes a missing file for an empty one
ReadTextOrEmpty(f) == Done(f.text)

\* Path.read_text: FileNotFoundError when the file is missing
ReadText(f) == IF f.exists THEN Done(f.text) ELSE Raise("FileNotFoundError")

\* a write that opens with mode 'a'
AppendText(f, s) == File(f.text \o s)

\* Path.write_text opens with mode 'w': the old content is replaced
WriteText(f, s) == File(s)

\* relative paths below a docs directory, and the directory each lies in
ROOT == ""
DIR == "dir"
Paths == {"a.txt", "b", "b/c.txt", "old.txt"}
Parent(p) == IF p = "b/c.txt" THEN "b" ELSE ROOT
Versions == {"v1", "v2"}

NoTree == [exists |-> FALSE, entries |-> <<>>]
Tree(e) == [exists |-> TRUE, entries |-> e]

Children(e, d) == {p \in DOMAIN e : Parent(p) = d}

\* a removal that leaves the directory in place
RmTreeKeep(t) == t

\* shutil.rmtree(DOCS_TARGET), guarded by DOCS_TARGET.exists()
RmTree(t) == NoTree

\* copytree's walk: every entry of directory d is copied, subdirectories
\* recursively with their content
RECURSIVE CopyEntries(_, _, _, _)
CopyEntries(e, todo, dst, deep) ==
    IF todo = {} THEN dst
    ELSE LET p == CHOOSE x \in todo : TRUE
             made == dst @@ (p :> e[p])
             filled == IF e[p] = DIR /\ deep
                       THEN CopyEntries(e, Children(e, p), made, deep)
                       ELSE made
         IN CopyEntries(e, todo \ {p}, filled, deep)

\* a copy that creates subdirectories but does not descend into them
CopyTreeShallow(src, dst) ==
    IF ~src.exists THEN [ok |-> FALSE, err |-> "FileNotFoundError", tree |-> dst]
    ELSE IF dst.exists THEN [ok |-> FALSE, err |-> "FileExistsError", tree |-> dst]
    ELSE [ok |-> TRUE, err |-> "none",
          tree |-> Tree(CopyEntries(src.entries, Children(src.entries, ROOT), <<>>, FALSE))]

\* shutil.copytree(src, dst): lists src first (FileNotFoundError), then creates
\* dst (FileExistsError when it is there), then copies
CopyTree(src, dst) ==
    IF ~src.exists THEN [ok |-> FALSE, err |-> "FileNotFoundError", tree |-> dst]
    ELSE IF dst.exists THEN [ok |-> FALSE, err |-> "FileExistsError", tree |-> dst]
    ELSE [ok |-> TRUE, err |-> "none",
          tree |-> Tree(CopyEntries(src.entries, Children(src.entries, ROOT), <<>>, TRUE))]

-----------------------------------------------------------------------------
(* Input families *)

CONFIRMATION == "Regenerated website/content/index.html from README.md"

DefaultTemplate == <<P_OPEN, DOLLAR>> \o README_ID \o <<P_END>>
DefaultReadme == <<"a">>
DefaultDocs == Tree([p \in {"a.txt", "b", "b/c.txt"} |-> IF p = "b" THEN DIR ELSE "v1"])
OldPage == <<"old page">>

TreeEntries ==
    {e \in UNION {[S -> Versions \cup {DIR}] : S \in SUBSET Paths} :
        \A p \in DOMAIN e :
            /\ (e[p] = DIR) <=> (p = "b")
            /\ Parent(p) # ROOT => Parent(p) \in DOMAIN e}
Trees == {NoTree} \cup {Tree(e) : e \in TreeEntries}

StrikeChunks == {<<TILDE, TILDE>>, <<TILDE>>, <<"a">>, <<NL>>}
StrikeTexts == {Concat(cs) : cs \in SeqsUpTo(StrikeChunks, MaxChunks)}

LogoBlocks ==
    {<<open>> \o v[1] \o <<IMG_HEAD>> \o v[2] \o v[1] \o <<P_END>> :
        open \in BlockTags,
        v \in {<< <<>>, <<SP, SLASH, GT>> >>, << <<NL>>, <<GT>> >>}}
TaglineBlocks ==
    {<<P_CENTER, TIMELESS, SP, AMP, SP, PLAYFUL, P_END>>,
     <<P_CENTER_UP, NL, TIMELESS_UP, AMP, AMP_TAIL, PLAYFUL, NL, P_END>>,
     <<P_CENTER_SQ, TIMELESS, SP, AMP, SP, PLAYFUL, P_END>>}
ReadmeBlocks == LogoBlocks \cup TaglineBlocks \cup {DefaultReadme}

RECURSIVE JoinBlank(_)
JoinBlank(bs) ==
    IF bs = <<>> THEN <<>>
    ELSE IF Len(bs) = 1 THEN bs[1]
    ELSE bs[1] \o <<NL, NL>> \o JoinBlank(Tail(bs))
BlockTexts == {JoinBlank(bs) : bs \in SeqsUpTo(ReadmeBlocks, MaxBlocks)}

TemplateChunks == {<<DOLLAR>>, README_ID, <<LBRACE>>, <<RBRACE>>, <<"x">>}
TemplateTexts ==
    {DefaultTemplate} \cup {Concat(cs) : cs \in SeqsUpTo(TemplateChunks, MaxTemplateChunks)}
FragmentSources == {DefaultReadme, <<DOLLAR, "x">>}

-----------------------------------------------------------------------------
(* State *)

NoText == <<>>

InitLocals ==
    /\ stdout = <<>>
    /\ pc = "sync_docs"
    /\ error = "none"
    /\ io = <<>>
    /\ tmpl = NoText
    /\ struck = NoText
    /\ rendered = NoText
    /\ afterLogo = NoText
    /\ html = NoText
    /\ page = NoText
    /\ runs = 1
    /\ hist = [output0 |-> outputHtml, target0 |-> docsTarget,
               out1 |-> NoFile, docs1 |-> NoTree]

\* README texts with strikethrough markers
InitStrike ==
    /\ readme \in {File(t) : t \in StrikeTexts}
    /\ template = File(DefaultTemplate)
    /\ docsSource = DefaultDocs
    /\ docsTarget = NoTree
    /\ outputHtml = NoFile

\* README texts with logo and tagline blocks
InitBlocks ==
    /\ readme \in {File(t) : t \in BlockTexts}
    /\ template = File(DefaultTemplate)
    /\ docsSource = DefaultDocs
    /\ docsTarget = NoTree
    /\ outputHtml = NoFile

\* template texts
InitTemplates ==
    /\ template \in {File(t) : t \in TemplateTexts}
    /\ readme \in {File(t) : t \in FragmentSources}
    /\ docsSource = DefaultDocs
    /\ docsTarget = NoTree
    /\ outputHtml = NoFile

\* documentation trees and an earlier output file
InitTrees ==
    /\ docsSource \in Trees
    /\ docsTarget \in Trees
    /\ outputHtml \in {NoFile, File(OldPage)}
    /\ readme = File(DefaultReadme)
    /\ template = File(DefaultTemplate)

\* missing inputs
InitMissing ==
    /\ docsSource \in {NoTree, DefaultDocs}
    /\ docsTarget \in {NoTree, DefaultDocs}
    /\ outputHtml \in {NoFile, File(OldPage)}
    /\ readme \in {NoFile, File(DefaultReadme)}
    /\ template \in {NoFile, File(DefaultTemplate), File(<<DOLLAR, "x">>)}

Init ==
    /\ InitStrike \/ InitBlocks \/ InitTemplates \/ InitTrees \/ InitMissing
    /\ InitLocals

-----------------------------------------------------------------------------
(* main() *)

Fail(e) == pc' = "failed" /\ error' = e

\* sync_docs()
SyncDocs ==
    /\ pc = "sync_docs"
    /\ LET cleared == IF docsTarget.exists THEN RmTree(docsTarget) ELSE docsTarget
           r == CopyTree(docsSource, cleared)
       IN /\ docsTarget' = r.tree
          /\ io' = io \o (IF docsTarget.exists THEN <<"rmtree">> ELSE <<>>) \o <<"copytree">>
          /\ IF r.ok THEN pc' = "read_template" /\ error' = error ELSE Fail(r.err)
    /\ UNCHANGED <<docsSource, readme, template, outputHtml, stdout, tmpl, struck,
                   rendered, afterLogo, html, page, runs, hist>>

\* build_page(): Template(TEMPLATE_PATH.read_text())
ReadTemplate ==
    /\ pc = "read_template"
    /\ LET r == ReadText(template)
       IN /\ io' = Append(io, "read template")
          /\ IF r.ok
             THEN tmpl' = r.text /\ pc' = "render_readme" /\ error' = error
             ELSE tmpl' = tmpl /\ Fail(r.err)
    /\ UNCHANGED <<docsSource, docsTarget, readme, template, outputHtml, stdout,
                   struck, rendered, afterLogo, html, page, runs, hist>>

\* render_readme()
RenderReadme ==
    /\ pc = "render_readme"
    /\ LET r == ReadText(readme)
           s == StrikeSub(r.text)
           m == Markdown(s)
           l == LogoSub(m)
       IN /\ io' = Append(io, "read readme")
          /\ IF r.ok
             THEN /\ struck' = s
                  /\ rendered' = m
                  /\ afterLogo' = l
                  /\ html' = TaglineSub(l)
                  /\ pc' = "substitute"
                  /\ error' = error
             ELSE /\ UNCHANGED <<struck, rendered, afterLogo, html>>
                  /\ Fail(r.err)
    /\ UNCHANGED <<docsSource, docsTarget, readme, template, outputHtml, stdout,
                   tmpl, page, runs, hist>>

\* build_page(): template.substitute(readme=render_readme())
BuildPage ==
    /\ pc = "substitute"
    /\ LET r == Substitute(tmpl, html)
       IN IF r.ok
          THEN page' = r.text /\ pc' = "write" /\ error' = error
          ELSE page' = page /\ Fail(r.err)
    /\ UNCHANGED <<docsSource, docsTarget, readme, template, outputHtml, stdout, io,
                   tmpl, struck, rendered, afterLogo, html, runs, hist>>

\* OUTPUT_HTML.write_text(...)
WriteOutput ==
    /\ pc = "write"
    /\ outputHtml' = WriteText(outputHtml, page)
    /\ io' = Append(io, "write output")
    /\ pc' = "print"
    /\ UNCHANGED <<docsSource, docsTarget, readme, template, stdout, error, tmpl,
                   struck, rendered, afterLogo, html, page, runs, hist>>

\* print(...)
PrintConfirmation ==
    /\ pc = "print"
    /\ stdout' = Append(stdout, CONFIRMATION)
    /\ io' = Append(io, "print")
    /\ pc' = "done"
    /\ UNCHANGED <<docsSource, docsTarget, readme, template, outputHtml, error, tmpl,
                   struck, rendered, afterLogo, html, page, runs, hist>>

\* the script is invoked again on the same inputs
Rerun ==
    /\ pc \in {"done", "failed"}
    /\ runs < MaxRuns
    /\ runs' = runs + 1
    /\ pc' = "sync_docs"
    /\ error' = "none"
    /\ io' = <<>>
    /\ tmpl' = NoText
    /\ struck' = NoText
    /\ rendered' = NoText
    /\ afterLogo' = NoText
    /\ html' = NoText
    /\ page' = NoText
    /\ hist' = IF runs = 1
               THEN [hist EXCEPT !.out1 = outputHtml, !.docs1 = docsTarget]
               ELSE hist
    /\ UNCHANGED <<docsSource, docsTarget, readme, template, outputHtml, stdout>>

Next ==
    \/ SyncDocs
    \/ ReadTemplate
    \/ RenderReadme
    \/ BuildPage
    \/ WriteOutput
    \/ PrintConfirmation
    \/ Rerun

Spec == Init /\ [][Next]_vars

-----------------------------------------------------------------------------
(* Properties.  What the patterns and the template syntax mean is stated    *)
(* here by position and membership, apart from the scanners above.          *)

Did(op) == \E k \in 1..Len(io) : io[k] = op
Times(op) == Cardinality({k \in 1..Len(io) : io[k] = op})

\* sync_docs has returned in the current run
SyncDone == Did("copytree") /\ ~(pc = "failed" /\ io[Len(io)] = "copytree")
\* render_readme has returned in the current run
RenderDone == Did("read readme") /\ readme.exists
\* template.substitute has returned or raised in the current run
BuildDone == RenderDone /\ pc # "substitute"
BuildOk == pc \in {"write", "print", "done"}

Positions(t) == 1..Len(t)
Tags(t) == SelectSeq(t, LAMBDA c : c \in {DEL_OPEN, DEL_CLOSE})
TildePairs(t) == {i \in Positions(t) : IsTildes(t, i)}

\* the text with every strikethrough tag turned back into two tildes
RECURSIVE Undel(_)
Undel(t) ==
    IF t = <<>> THEN <<>>
    ELSE IF Head(t) \in {DEL_OPEN, DEL_CLOSE} THEN <<TILDE, TILDE>> \o Undel(Tail(t))
    ELSE <<Head(t)>> \o Undel(Tail(t))

\* C5: every ~~inner~~ span of the README becomes <del>inner</del> with inner and
\* all other text kept exactly; tags come in open/close pairs whose inner text
\* holds no ~~ (adjacent spans are not merged); what remains of ~~ is unmatched:
\* it lies after the last span and no second ~~ follows it.
C5_StrikeConvertsSpans ==
    RenderDone =>
        /\ Undel(struck) = readme.text
        /\ \A k \in Positions(Tags(struck)) :
                Tags(struck)[k] = (IF k % 2 = 1 THEN DEL_OPEN ELSE DEL_CLOSE)
        /\ Len(Tags(struck)) % 2 = 0
        /\ \A p \in Positions(struck), q \in Positions(struck) :
                (/\ p < q
                 /\ struck[p] = DEL_OPEN
                 /\ struck[q] = DEL_CLOSE
                 /\ \A k \in (p + 1)..(q - 1) : struck[k] # DEL_CLOSE)
                => \A k \in (p + 1)..(q - 1) : ~IsTildes(struck, k)
        /\ \A i \in TildePairs(struck) :
                /\ \A k \in Positions(struck) : k > i => struck[k] \notin {DEL_OPEN, DEL_CLOSE}
                /\ \A j \in TildePairs(struck) : j < i + 2

C5_Witness ==
    /\ RenderDone
    /\ Len(Tags(struck)) = 4
    /\ \E k \in Positions(struck) : struck[k] = NL /\ k > 1 /\ struck[k - 1] = DEL_OPEN

\* C6: applying the strikethrough substitution to its own output changes nothing,
\* and a text without ~~ is returned as it is.
C6_StrikeIdempotent ==
    RenderDone =>
        /\ StrikeSub(struck) = struck
        /\ TildePairs(readme.text) = {} => struck = readme.text

C6_Witness ==
    /\ RenderDone
    /\ struck # readme.text
    /\ TildePairs(struck) # {}

CenterTags == {P_CENTER, P_CENTER_UP}
Spaces(t, a, b) == \A k \in a..b : t[k] \in {SP, NL}

\* the segment t[i..j] is an occurrence of the logo block
IsLogo(t, i, j) ==
    /\ i < j
    /\ t[i] \in CenterTags
    /\ t[j] = P_END
    /\ \E a \in (i + 1)..(j - 1), b \in (i + 1)..(j - 1) :
            /\ a < b
            /\ Spaces(t, i + 1, a - 1)
            /\ t[a] = IMG_HEAD
            /\ SubSeq(t, a + 1, b - 1) \in {<<>>, <<SP>>, <<SLASH>>, <<SP, SLASH>>}
            /\ t[b] = GT
            /\ Spaces(t, b + 1, j - 1)

\* the segment t[i..j] is an occurrence of the tagline paragraph
IsTagline(t, i, j) ==
    /\ i < j
    /\ t[i] \in CenterTags
    /\ t[j] = P_END
    /\ \E a \in (i + 1)..(j - 1), b \in (i + 1)..(j - 1), c \in (i + 1)..(j - 1) :
            /\ a < b /\ b < c
            /\ Spaces(t, i + 1, a - 1)
            /\ t[a] \in {TIMELESS, TIMELESS_UP}
            /\ Spaces(t, a + 1, b - 1)
            /\ t[b] = AMP
            /\ \/ Spaces(t, b + 1, c - 1)
               \/ b + 1 < c /\ t[b + 1] = AMP_TAIL /\ Spaces(t, b + 2, c - 1)
            /\ t[c] = PLAYFUL
            /\ Spaces(t, c + 1, j - 1)

Occurs(pat, t, i, j) == IF pat = "logo" THEN IsLogo(t, i, j) ELSE IsTagline(t, i, j)
Starts(pat, t) == {i \in Positions(t) : \E j \in Positions(t) : Occurs(pat, t, i, j)}

\* out is t with its first occurrence of pat, and nothing else, replaced by repl
FirstReplaced(pat, repl, t, out) ==
    \A i \in Starts(pat, t), j \in Positions(t) :
        (Occurs(pat, t, i, j) /\ \A k \in Starts(pat, t) : i <= k)
        => out = SubSeq(t, 1, i - 1) \o repl \o SubSeq(t, j + 1, Len(t))

\* C7: when the logo block occurs in the rendered HTML, its first occurrence alone
\* is replaced by the readme__logo block and the rest of the text, a second
\* occurrence included, is kept; likewise for the tagline.
C7_FirstOccurrenceOnly ==
    RenderDone =>
        /\ FirstReplaced("logo", LOGO_REPL, rendered, afterLogo)
        /\ FirstReplaced("tagline", TAGLINE_REPL, afterLogo, html)

C7_Witness ==
    /\ RenderDone
    /\ Cardinality(Starts("logo", rendered)) = 2
    /\ Cardinality(Starts("logo", afterLogo)) = 1
    /\ afterLogo[1] = P_LOGO

\* C8: when the logo block (the tagline) does not occur, the step returns its
\* input unchanged; render_readme raises nothing once the README is read, so a
\* run that fails afterwards fails in the template substitution.
C8_AbsentPatternUnchanged ==
    RenderDone =>
        /\ Starts("logo", rendered) = {} => afterLogo = rendered
        /\ Starts("tagline", afterLogo) = {} => html = afterLogo
        /\ pc = "failed" => error \in {"KeyError", "ValueError"}

C8_Witness ==
    /\ pc = "done"
    /\ \E k \in Positions(rendered) : rendered[k] = P_CENTER_SQ
    /\ \E k \in Positions(rendered) : rendered[k] = IMG_HEAD
    /\ html = rendered
    /\ outputHtml = File(page)

-----------------------------------------------------------------------------
(* Template syntax, by position *)

\* the number of $ in a row that end just before position p
DollarsBefore(t, p) ==
    CHOOSE n \in 0..(p - 1) :
        /\ \A k \in (p - n)..(p - 1) : t[k] = DOLLAR
        /\ p - n - 1 >= 1 => t[p - n - 1] # DOLLAR

\* a $ that is not the second half of the escape $$
Active(t, p) == p \in Positions(t) /\ t[p] = DOLLAR /\ DollarsBefore(t, p) % 2 = 0
IsEscape(t, p) == Active(t, p) /\ p + 1 <= Len(t) /\ t[p + 1] = DOLLAR

\* the length of the token $readme or ${readme} at p, 0 when there is none
TokenLen(t, p) ==
    IF ~Active(t, p) THEN 0
    ELSE IF /\ p + 6 <= Len(t)
            /\ SubSeq(t, p + 1, p + 6) = README_ID
            /\ p + 7 <= Len(t) => t[p + 7] \notin IdChar
    THEN 7
    ELSE IF /\ p + 8 <= Len(t)
            /\ t[p + 1] = LBRACE
            /\ SubSeq(t, p + 2, p + 7) = README_ID
            /\ t[p + 8] = RBRACE
    THEN 9
    ELSE 0

Tokens(t) == {p \in Positions(t) : TokenLen(t, p) > 0}
\* a $ that starts neither an escape nor a readme token
BadDollars(t) == {p \in Positions(t) : Active(t, p) /\ ~IsEscape(t, p) /\ TokenLen(t, p) = 0}

\* the text without the second $ of every escape
RECURSIVE Unescape(_, _)
Unescape(t, p) ==
    IF p > Len(t) THEN <<>>
    ELSE IF t[p] = DOLLAR /\ ~Active(t, p) THEN Unescape(t, p + 1)
    ELSE <<t[p]>> \o Unescape(t, p + 1)

\* C1 as stated: build_page succeeds only on a template that holds a readme token.
C1_FailsWithoutPlaceholder ==
    BuildOk => Tokens(tmpl) # {}

\* C1 amended: build_page fails exactly when the template holds a $ that starts
\* neither the escape $$ nor a $readme / ${readme} token; then no page text is
\* produced or written.  A template without any placeholder does not fail.
C1_FailsOnOtherPlaceholder ==
    BuildDone =>
        /\ (pc = "failed") <=> (BadDollars(tmpl) # {})
        /\ pc = "failed" =>
                /\ error \in {"KeyError", "ValueError"}
                /\ page = NoText
                /\ outputHtml = hist.output0
                /\ ~Did("write output")
        /\ (Tokens(tmpl) = {} /\ BadDollars(tmpl) = {} /\ pc = "done")
                => outputHtml = File(Unescape(tmpl, 1))

C1_Witness ==
    /\ BuildDone
    /\ pc = "failed"
    /\ error = "KeyError"
    /\ Tokens(tmpl) = {}

\* C10 as stated: with a single readme token, the page is the template text with
\* the token replaced by the fragment and nothing else changed.
C10_OnlyTokenReplaced ==
    BuildOk =>
        \A p \in Tokens(tmpl) :
            Tokens(tmpl) = {p}
            => page = SubSeq(tmpl, 1, p - 1) \o html
                        \o SubSeq(tmpl, p + TokenLen(tmpl, p), Len(tmpl))

\* C10 amended: with a single readme token, the page is the template text with
\* the token replaced by the fragment verbatim and every escape $$ replaced by
\* one $; the inserted fragment is not scanned for placeholders.
C10_TokenReplacedEscapesFolded ==
    BuildOk =>
        \A p \in Tokens(tmpl) :
            Tokens(tmpl) = {p}
            => page = Unescape(SubSeq(tmpl, 1, p - 1), 1) \o html
                        \o Unescape(SubSeq(tmpl, p + TokenLen(tmpl, p), Len(tmpl)), 1)

C10_Witness ==
    /\ pc = "done"
    /\ tmpl = <<DOLLAR, DOLLAR, DOLLAR>> \o README_ID
    /\ html = <<P_OPEN, DOLLAR, "x", P_END>>
    /\ page = <<DOLLAR, P_OPEN, DOLLAR, "x", P_END>>
    /\ outputHtml = File(page)

-----------------------------------------------------------------------------
(* Runs *)

InputsOk ==
    /\ docsSource.exists
    /\ template.exists
    /\ readme.exists
    /\ BadDollars(template.text) = {}

\* C2: a run that fails at any stage leaves the output file as it was and prints
\* nothing; only the documentation target may differ.  The file is written only
\* when every earlier stage succeeded, and the confirmation is printed once per
\* run, right after the write.
C2_AllOrNothing ==
    /\ ~InputsOk =>
            /\ outputHtml = hist.output0
            /\ stdout = <<>>
            /\ ~BuildOk
    /\ pc = "failed" =>
            /\ outputHtml = hist.output0
            /\ stdout = <<>>
            /\ ~Did("write output")
            /\ ~Did("print")
    /\ Did("write output") =>
            /\ InputsOk
            /\ error = "none"
            /\ outputHtml = File(page)
            /\ Times("write output") = 1
    /\ Did("print") =>
            /\ Times("print") = 1
            /\ io[Len(io)] = "print"
            /\ io[Len(io) - 1] = "write output"
    /\ Len(stdout) = (IF InputsOk THEN runs - 1 ELSE 0) + (IF Did("print") THEN 1 ELSE 0)

C2_Witness ==
    /\ pc = "failed"
    /\ error = "FileNotFoundError"
    /\ Did("read readme")
    /\ hist.output0 = File(OldPage)
    /\ outputHtml = File(OldPage)
    /\ docsTarget # hist.target0

\* C3: once sync_docs has returned, the target holds exactly the source's paths
\* with the source's contents; a path that was in the target before and is not in
\* the source is gone.  sync_docs returns whenever the source exists.
C3_TargetMirrorsSource ==
    /\ SyncDone =>
            /\ docsTarget.exists
            /\ DOMAIN docsTarget.entries = DOMAIN docsSource.entries
            /\ \A p \in DOMAIN docsSource.entries :
                    docsTarget.entries[p] = docsSource.entries[p]
            /\ \A p \in DOMAIN hist.target0.entries :
                    p \notin DOMAIN docsSource.entries => p \notin DOMAIN docsTarget.entries
    /\ (Did("copytree") /\ docsSource.exists) => SyncDone

C3_Witness ==
    /\ SyncDone
    /\ DOMAIN docsSource.entries = {"a.txt", "b", "b/c.txt"}
    /\ "old.txt" \in DOMAIN hist.target0.entries
    /\ "old.txt" \notin DOMAIN docsTarget.entries
    /\ docsTarget.entries["b/c.txt"] = "v2"

\* C4: without the documentation source, sync_docs raises FileNotFoundError and
\* the run ends there: no file is read, nothing is written or printed, and the
\* target directory, removed before the copy, is absent.
C4_MissingSourceFatal ==
    (~docsSource.exists /\ Did("copytree")) =>
        /\ pc = "failed"
        /\ error = "FileNotFoundError"
        /\ io \in {<<"copytree">>, <<"rmtree", "copytree">>}
        /\ (runs = 1 /\ hist.target0.exists) => io = <<"rmtree", "copytree">>
        /\ ~docsTarget.exists
        /\ outputHtml = hist.output0
        /\ stdout = <<>>
        /\ tmpl = NoText /\ struck = NoText /\ page = NoText

C4_Witness ==
    /\ ~docsSource.exists
    /\ hist.target0.exists
    /\ "old.txt" \in DOMAIN hist.target0.entries
    /\ pc = "failed"
    /\ ~docsTarget.exists

\* C9: a second run (and any later one) on the same inputs ends with the same
\* output file and the same documentation tree as the first, whatever the output
\* file and the target directory held before the first run.
C9_RerunSameOutput ==
    (runs >= 2 /\ pc \in {"done", "failed"}) =>
        /\ outputHtml = hist.out1
        /\ docsTarget = hist.docs1

C9_Witness ==
    /\ runs = 2
    /\ pc = "done"
    /\ hist.output0 = File(OldPage)
    /\ hist.target0.exists
    /\ hist.target0 # docsTarget
    /\ outputHtml = hist.out1
    /\ outputHtml = File(page)
    /\ docsTarget.entries = docsSource.entries

====
